---- MODULE Spec2Model ----
(***************************************************************************)
(* ForwardStep of megatron/inference/text_generation/forward_step.py: the  *)
(* decision between one forward step and a loop over micro-batches, the    *)
(* receive / forward / send order of one step, and the two offsets of the  *)
(* inference context.  One pipeline rank is modelled; the transport and    *)
(* the model are opaque calls that return or raise.                        *)
(***************************************************************************)
EXTENDS Integers, Sequences, FiniteSets, TLC

\* ---------------------------------------------------------------- bounds
MaxPipeline == 2
MaxThreshold == 3
MaxBatch == 3
MaxSeq == 2
MaxCalls == 2
\* a direct call of _with_pipelining_forward_step: batch and micro-batch sizes
PlanMaxBatch == 10
PlanMaxMicro == 4
\* calls of _allocate_recv_buffer by themselves: the sequence lengths tried
AllocMaxSeq == 5
\* the longest chain of pipeline ranks that run one invocation together
ChainMaxRanks == 3

\* ------------------------------------------------------ program constants
\* args.inference_batch_times_seqlen_threshold value that disables splitting
Disabled == -1
\* recv_buffer_seq_length=None, the default of __call__ (an absent length)
NoneLen == -1
\* args.hidden_size, third dimension of the receive buffer
hidden_size == 8
\* a row of torch.empty((batch_size, ...)) that nothing has written yet
Uninit == 0

\* None for a tensor-valued name; a buffer is its shape <<s, b, h>>
NoBuffer == <<>>
NoTensor == [kind |-> "None", rows |-> <<>>, dtype |-> "None"]

Max(a, b) == IF a >= b THEN a ELSE b
Min(a, b) == IF a <= b THEN a ELSE b

Thresholds == {-2, Disabled, 0} \cup (1..MaxThreshold)

VARIABLES
    args,               \* get_args(): pipeline_model_parallel_size, threshold
    rank,               \* mpu: this rank's pipeline stage, 0-based
    self,               \* ForwardStep fields set by __init__
    inference_context,  \* sequence_len_offset, batch_size_offset
    pc,                 \* position of the rank's single thread
    tokens,             \* tokens of the invocation: rows and tokens.size(1)
    recv_buffer_seq_length, \* argument of __call__, NoneLen when not given
    path,               \* "none", "single" or "chunked"
    mb,                 \* locals of _with_pipelining_forward_step
    recv_buffer,        \* recv_buffer of the caller of _forward_step_helper
    helper,             \* locals of _forward_step_helper
    output_tensor,      \* what _forward_step_helper returned last
    logits,             \* logits of the running path
    result,             \* outcome of the last invocation and its return value
    entry,              \* the offsets when the invocation was entered
    trace,              \* the calls the invocation made so far, in order
    writes,             \* per row of logits, how many copies wrote it
    calls,              \* number of invocations started
    sum_tokens_seq,     \* sum of tokens.size(1) over completed invocations
    chain               \* the ranks of a pipeline that run one invocation each

vars == <<args, rank, self, inference_context, pc, tokens,
          recv_buffer_seq_length, path, mb, recv_buffer, helper,
          output_tensor, logits, result, entry, trace, writes, calls,
          sum_tokens_seq, chain>>

\* ------------------------------------------------------------- topology
is_pipeline_first_stage == rank = 0
is_pipeline_last_stage == rank = args.pipeline_model_parallel_size - 1

\* ----------------------------------------------------------- pure parts
\* tokens.size(0) and tokens.size(1)
Size0(t) == Len(t.rows)
Size1(t) == t.seq

\* tokens[start:end, ...]
Slice(t, start, end) == [rows |-> SubSeq(t.rows, start + 1, end), seq |-> t.seq]

\* seq_len of __call__ and sequence_length of _with_pipelining_forward_step
SeqLen(t, rbsl) == IF rbsl = NoneLen THEN Size1(t) ELSE rbsl

\* the two nested conditions of __call__ that lead to the pipelined path
ShouldPipeline(t, rbsl) ==
    /\ self.pipeline_size_larger_than_one
    /\ self.pipelining_batch_x_seqlen # Disabled
    /\ Size0(t) * SeqLen(t, rbsl) >= self.pipelining_batch_x_seqlen

\* mutant: max(1, threshold), the division by seq_len forgotten
MicroBatchSizeUndivided(threshold, seq_len) == Max(1, threshold)

\* max(1, self.pipelining_batch_x_seqlen // seq_len); seq_len = 0 raises
MicroBatchSize(threshold, seq_len) == Max(1, threshold \div seq_len)

\* mutant: the remainder of divmod is dropped, the short last range is lost
NumMicroBatchesNoRemainder(batch_size, micro_batch_size) ==
    batch_size \div micro_batch_size

\* divmod(batch_size, micro_batch_size), plus one for a remainder
NumMicroBatches(batch_size, micro_batch_size) ==
    (batch_size \div micro_batch_size)
        + (IF batch_size % micro_batch_size > 0 THEN 1 ELSE 0)

MicroStart(micro_batch_index, micro_batch_size) ==
    micro_batch_index * micro_batch_size

MicroEnd(start, micro_batch_size, batch_size) ==
    Min(start + micro_batch_size, batch_size)

\* _allocate_recv_buffer: None on the first stage, else torch.empty((s, b, h))
\* _get_recv_buffer_dtype: torch.float for fp32 residuals, else params_dtype
get_recv_buffer_dtype ==
    IF args.fp32_residual_connection THEN "float32" ELSE args.params_dtype

\* mutant: recv_size = (batch_size, sequence_length, hidden_size)
AllocateBatchFirst(first_stage, batch_size, sequence_length) ==
    IF first_stage THEN NoBuffer
    ELSE <<batch_size, sequence_length, hidden_size, get_recv_buffer_dtype>>

\* mutant: no first-stage check, a buffer on every rank
AllocateOnEveryStage(first_stage, batch_size, sequence_length) ==
    <<sequence_length, batch_size, hidden_size, get_recv_buffer_dtype>>

\* _allocate_recv_buffer on a rank that is, or is not, the first stage:
\* None, or torch.empty((s, b, h), dtype) as its shape and dtype
AllocateOn(first_stage, batch_size, sequence_length) ==
    IF first_stage THEN NoBuffer
    ELSE <<sequence_length, batch_size, hidden_size, get_recv_buffer_dtype>>

\* _allocate_recv_buffer on this rank
allocate_recv_buffer(batch_size, sequence_length) ==
    AllocateOn(is_pipeline_first_stage, batch_size, sequence_length)

numel(buf) == buf[1] * buf[2] * buf[3]

\* recv_buffer is not None and torch.numel(recv_buffer) > 0
Receives(buf) == buf # NoBuffer /\ numel(buf) > 0

\* the opaque model, row by row: the output row of an input row
ModelRow(r) == 2 * r + 1

\* self._forward(tokens, ...), with a tuple result already unwrapped
Forward(t) ==
    [kind |-> "tensor", rows |-> [i \in 1..Size0(t) |-> ModelRow(t.rows[i])],
     dtype |-> "model"]

\* torch.empty((batch_size, sequence_length, vocab), dtype=torch.float32)
EmptyLogits(batch_size) ==
    [kind |-> "tensor", rows |-> [i \in 1..batch_size |-> Uninit],
     dtype |-> "float32"]

\* mutant: logits[:end - start, ...] = output, the slice offset forgotten
CopyLogitsAtZero(buf, start, end, output) ==
    [buf EXCEPT !.rows =
        [i \in 1..Len(buf.rows) |->
            IF i \in 1..(end - start) THEN output.rows[i] ELSE buf.rows[i]]]

\* the rows that logits[start:end, ...] = output writes
CopyRows(start, end) == (start + 1)..end

\* logits[start:end, ...] = output: the rows are copied into float32 storage
CopyLogits(buf, start, end, output) ==
    [buf EXCEPT !.rows =
        [i \in 1..Len(buf.rows) |->
            IF i \in CopyRows(start, end) THEN output.rows[i - start]
            ELSE buf.rows[i]]]

NoFrame == [micro_batch_size |-> 0, num_micro_batches |-> 0,
            micro_batch_index |-> 0, start |-> 0, end |-> 0,
            this_micro_batch_size |-> 0, sequence_length |-> 0]
NoHelper == [tokens |-> [rows |-> <<>>, seq |-> 0], recv_buffer |-> NoBuffer]
NoResult == [status |-> "none", value |-> NoTensor]

Event(ev, info) == [ev |-> ev, mb |-> mb.micro_batch_index, info |-> info]

\* ----------------------------------------------------------------- Init
\* the dtype options decide nothing but the dtype of the receive buffer:
\* the invocations run under one setting, the allocator under all of them
ParamsDtypes == {"float16", "bfloat16", "float32"}
ArgsOfInvocations ==
    [pipeline_model_parallel_size : 1..MaxPipeline,
     inference_batch_times_seqlen_threshold : Thresholds,
     fp32_residual_connection : {FALSE},
     params_dtype : {"float16"}]
ArgsOfAllocations ==
    [pipeline_model_parallel_size : 1..MaxPipeline,
     inference_batch_times_seqlen_threshold : {Disabled},
     fp32_residual_connection : BOOLEAN,
     params_dtype : ParamsDtypes]

NoChain == <<>>

InitWith(argsets) ==
    /\ args \in argsets
    /\ chain = NoChain
    /\ rank \in 0..(MaxPipeline - 1)
    /\ rank < args.pipeline_model_parallel_size
    /\ self = [pipeline_size_larger_than_one |-> FALSE,
               pipelining_batch_x_seqlen |-> Disabled]
    /\ inference_context = [sequence_len_offset |-> 0, batch_size_offset |-> 0]
    /\ pc = "new"
    /\ tokens = [rows |-> <<>>, seq |-> 0]
    /\ recv_buffer_seq_length = NoneLen
    /\ path = "none"
    /\ mb = NoFrame
    /\ recv_buffer = NoBuffer
    /\ helper = NoHelper
    /\ output_tensor = NoTensor
    /\ logits = NoTensor
    /\ result = NoResult
    /\ entry = inference_context
    /\ trace = <<>>
    /\ writes = <<>>
    /\ calls = 0
    /\ sum_tokens_seq = 0

Init == InitWith(ArgsOfInvocations)

\* ------------------------------------------------------------- __init__
\* ForwardStep.__init__: copies the two pipelining arguments, checks neither
Construct ==
    /\ pc = "new"
    /\ self' = [pipeline_size_larger_than_one |->
                    args.pipeline_model_parallel_size > 1,
                pipelining_batch_x_seqlen |->
                    args.inference_batch_times_seqlen_threshold]
    /\ pc' = "idle"
    /\ UNCHANGED <<chain, args, rank, inference_context, tokens,
                   recv_buffer_seq_length, path, mb, recv_buffer, helper,
                   output_tensor, logits, result, entry, trace, writes, calls,
                   sum_tokens_seq>>

\* ------------------------------------------------------------- __call__
Batches ==
    {[rows |-> [i \in 1..b |-> i], seq |-> s] : b \in 0..MaxBatch, s \in 0..MaxSeq}
RecvLengths == {NoneLen} \cup (0..MaxSeq)

\* what every entry into __call__ does to the bookkeeping of the model
Enter(t, rbsl) ==
    /\ pc = "idle"
    /\ calls < MaxCalls
    /\ calls' = calls + 1
    /\ tokens' = t
    /\ recv_buffer_seq_length' = rbsl
    /\ entry' = inference_context
    /\ trace' = <<>>
    /\ output_tensor' = NoTensor
    /\ UNCHANGED <<chain, args, rank, self, inference_context, sum_tokens_seq>>

Aborted == [status |-> "aborted", value |-> NoTensor]

\* __call__, pipelining case with seq_len = 0: the floor division raises
CallZeroDivision(t, rbsl) ==
    /\ Enter(t, rbsl)
    /\ ShouldPipeline(t, rbsl)
    /\ SeqLen(t, rbsl) = 0
    /\ path' = "none"
    /\ result' = Aborted
    /\ pc' = "returned"
    /\ UNCHANGED <<mb, recv_buffer, helper, logits, writes>>

\* logits of _with_pipelining_forward_step before its loop
PreallocatedLogits(batch_size) ==
    IF is_pipeline_last_stage THEN EmptyLogits(batch_size) ELSE NoTensor

\* _with_pipelining_forward_step from its first line to the head of its loop
PipeliningEntry(t, rbsl, micro_batch_size) ==
    /\ LET batch_size == Size0(t)
           sequence_length == SeqLen(t, rbsl)
       IN  /\ mb' = [micro_batch_size |-> micro_batch_size,
                     num_micro_batches |->
                         NumMicroBatches(batch_size, micro_batch_size),
                     micro_batch_index |-> 0, start |-> 0, end |-> 0,
                     this_micro_batch_size |-> 0,
                     sequence_length |-> sequence_length]
           /\ logits' = PreallocatedLogits(batch_size)
           /\ recv_buffer' = allocate_recv_buffer(micro_batch_size, sequence_length)
           /\ writes' = [i \in 1..batch_size |-> 0]
    /\ path' = "chunked"
    /\ result' = NoResult
    /\ pc' = "loop"
    /\ UNCHANGED helper

\* __call__ into _with_pipelining_forward_step, up to the head of its loop
CallPipelining(t, rbsl) ==
    /\ Enter(t, rbsl)
    /\ ShouldPipeline(t, rbsl)
    /\ SeqLen(t, rbsl) # 0
    /\ PipeliningEntry(t, rbsl,
           MicroBatchSize(self.pipelining_batch_x_seqlen, SeqLen(t, rbsl)))

\* _with_pipelining_forward_step called by itself, once, with any
\* micro_batch_size >= 1
PlanBatches ==
    {[rows |-> [i \in 1..b |-> i], seq |-> s] : b \in 0..PlanMaxBatch, s \in 1..MaxSeq}

DirectPipelining(t, micro_batch_size) ==
    /\ Enter(t, NoneLen)
    /\ calls = 0
    /\ PipeliningEntry(t, NoneLen, micro_batch_size)

\* __call__ into _no_pipelining_forward_step, up to its call of the helper
CallNoPipelining(t, rbsl) ==
    /\ Enter(t, rbsl)
    /\ ~ShouldPipeline(t, rbsl)
    /\ recv_buffer' = IF rbsl # NoneLen
                      THEN allocate_recv_buffer(Size0(t), rbsl)
                      ELSE NoBuffer
    /\ helper' = [tokens |-> t, recv_buffer |-> recv_buffer']
    /\ path' = "single"
    /\ mb' = NoFrame
    /\ logits' = NoTensor
    /\ writes' = <<>>
    /\ result' = NoResult
    /\ pc' = "helper"

\* mutant: the pre-allocated buffer handed over whatever the slice size
BufferKept(this_micro_batch_size, micro_batch_size, buffer) == buffer

\* if this_micro_batch_size != micro_batch_size: recv_buffer = None
BufferForSlice(this_micro_batch_size, micro_batch_size, buffer) ==
    IF this_micro_batch_size # micro_batch_size THEN NoBuffer ELSE buffer

\* ------------------------------------- _with_pipelining_forward_step loop
\* one pass of the loop head: the slice, and the buffer handed to the helper
LoopIter ==
    /\ pc = "loop"
    /\ mb.micro_batch_index < mb.num_micro_batches
    /\ LET start == MicroStart(mb.micro_batch_index, mb.micro_batch_size)
           end == MicroEnd(start, mb.micro_batch_size, Size0(tokens))
           this_micro_batch_size == end - start
       IN  /\ mb' = [mb EXCEPT !.start = start, !.end = end,
                        !.this_micro_batch_size = this_micro_batch_size]
           /\ recv_buffer' = BufferForSlice(this_micro_batch_size,
                                            mb.micro_batch_size, recv_buffer)
           /\ helper' = [tokens |-> Slice(tokens, start, end),
                         recv_buffer |-> recv_buffer']
           /\ trace' = Append(trace, Event("slice", <<start, end>>))
    /\ pc' = "helper"
    /\ UNCHANGED <<chain, args, rank, self, inference_context, tokens,
                   recv_buffer_seq_length, path, output_tensor, logits, result,
                   entry, writes, calls, sum_tokens_seq>>

\* mutant: batch_size_offset += micro_batch_size, the nominal size
OffsetAdvanceNominal == mb.micro_batch_size

\* mutant: batch_size_offset += end
OffsetAdvanceByEnd == mb.end

\* what batch_size_offset += this_micro_batch_size adds
OffsetAdvance == mb.this_micro_batch_size

\* after the helper returned: the offset update and the copy of the logits
AfterMicroBatch ==
    /\ pc = "ret"
    /\ path = "chunked"
    /\ inference_context' =
           [inference_context EXCEPT !.batch_size_offset = @ + OffsetAdvance]
    /\ IF is_pipeline_last_stage
       THEN /\ logits' = CopyLogits(logits, mb.start, mb.end, output_tensor)
            /\ writes' = [i \in 1..Len(writes) |->
                            IF i \in CopyRows(mb.start, mb.end)
                            THEN writes[i] + 1 ELSE writes[i]]
            /\ trace' = trace
                  \o <<Event("offset", <<inference_context'.batch_size_offset>>),
                       Event("copy", <<mb.start, mb.end>>)>>
       ELSE /\ UNCHANGED <<logits, writes>>
            /\ trace' = Append(trace,
                  Event("offset", <<inference_context'.batch_size_offset>>))
    /\ mb' = [mb EXCEPT !.micro_batch_index = @ + 1]
    /\ pc' = "loop"
    /\ UNCHANGED <<chain, args, rank, self, tokens, recv_buffer_seq_length, path,
                   recv_buffer, helper, output_tensor, result, entry, calls,
                   sum_tokens_seq>>

\* mutant: sequence_len_offset += seq_len, the receive length when given
SeqAdvanceBySeqLen(t) == SeqLen(t, recv_buffer_seq_length)

\* what sequence_len_offset += tokens.size(1) adds, on both paths
SeqAdvance(t) == Size1(t)

\* mutant: the reset after the loop is forgotten
OffsetKept(batch_size_offset) == batch_size_offset

\* batch_size_offset = 0 after the loop
OffsetReset(batch_size_offset) == 0

\* the loop is over: sequence_len_offset, the reset, return logits
PipeliningFinish ==
    /\ pc = "loop"
    /\ mb.micro_batch_index >= mb.num_micro_batches
    /\ inference_context' =
           [sequence_len_offset |->
                inference_context.sequence_len_offset + SeqAdvance(tokens),
            batch_size_offset |->
                OffsetReset(inference_context.batch_size_offset)]
    /\ result' = [status |-> "completed", value |-> logits]
    /\ sum_tokens_seq' = sum_tokens_seq + Size1(tokens)
    /\ pc' = "returned"
    /\ UNCHANGED <<chain, args, rank, self, tokens, recv_buffer_seq_length, path, mb,
                   recv_buffer, helper, output_tensor, logits, entry, trace,
                   writes, calls>>

\* ------------------------------------------------- _forward_step_helper
\* the buffer the helper receives into: its argument, or one allocated now
HelperBuffer ==
    IF helper.recv_buffer = NoBuffer
    THEN allocate_recv_buffer(Size0(helper.tokens), Size1(helper.tokens))
    ELSE helper.recv_buffer

\* allocation on the fly and recv_from_prev_pipeline_rank_, which returns
HelperRecv ==
    /\ pc = "helper"
    /\ helper' = [helper EXCEPT !.recv_buffer = HelperBuffer]
    /\ trace' = IF Receives(HelperBuffer)
                THEN Append(trace, Event("recv", HelperBuffer))
                ELSE trace
    /\ pc' = "forward"
    /\ UNCHANGED <<chain, args, rank, self, inference_context, tokens,
                   recv_buffer_seq_length, path, mb, recv_buffer,
                   output_tensor, logits, result, entry, writes, calls,
                   sum_tokens_seq>>

\* mutant: the helper advances sequence_len_offset after each model call
HelperForwardAdvancing ==
    /\ pc = "forward"
    /\ output_tensor' = Forward(helper.tokens)
    /\ trace' = Append(trace,
           Event("forward", <<inference_context.batch_size_offset,
                              inference_context.sequence_len_offset,
                              helper.recv_buffer>>))
    /\ inference_context' =
           [inference_context EXCEPT
               !.sequence_len_offset = @ + Size1(helper.tokens)]
    /\ pc' = "send"
    /\ UNCHANGED <<chain, args, rank, self, tokens,
                   recv_buffer_seq_length, path, mb, recv_buffer, helper,
                   logits, result, entry, writes, calls, sum_tokens_seq>>

\* set_input_tensor and self._forward, which returns
HelperForward ==
    /\ pc = "forward"
    /\ output_tensor' = Forward(helper.tokens)
    /\ trace' = Append(trace,
           Event("forward", <<inference_context.batch_size_offset,
                              inference_context.sequence_len_offset,
                              helper.recv_buffer>>))
    /\ pc' = "send"
    /\ UNCHANGED <<chain, args, rank, self, inference_context, tokens,
                   recv_buffer_seq_length, path, mb, recv_buffer, helper,
                   logits, result, entry, writes, calls, sum_tokens_seq>>

\* mutant: the send is issued before the forward pass
HelperSendBeforeForward ==
    /\ pc = "forward"
    /\ trace' = Append(trace, Event("send", <<>>))
    /\ pc' = "ret"
    /\ UNCHANGED <<chain, args, rank, self, inference_context, tokens,
                   recv_buffer_seq_length, path, mb, recv_buffer, helper,
                   output_tensor, logits, result, entry, writes, calls,
                   sum_tokens_seq>>

\* send_to_next_pipeline_rank, which returns, and the return of the helper
HelperSend ==
    /\ pc = "send"
    /\ trace' = Append(trace, Event("send", <<>>))
    /\ pc' = "ret"
    /\ UNCHANGED <<chain, args, rank, self, inference_context, tokens,
                   recv_buffer_seq_length, path, mb, recv_buffer, helper,
                   output_tensor, logits, result, entry, writes, calls,
                   sum_tokens_seq>>

\* mutant: a cleanup on the way out resets batch_size_offset
RaiseAndReset(where) ==
    /\ result' = Aborted
    /\ trace' = Append(trace, Event("raise", <<where>>))
    /\ pc' = "returned"
    /\ inference_context' = [inference_context EXCEPT !.batch_size_offset = 0]
    /\ UNCHANGED <<chain, args, rank, self, tokens, recv_buffer_seq_length, path, mb,
                   recv_buffer, helper, output_tensor, logits, entry, writes,
                   calls, sum_tokens_seq>>

\* an exception leaves every frame: nothing after the raising call runs
Raise(where) ==
    /\ result' = Aborted
    /\ trace' = Append(trace, Event("raise", <<where>>))
    /\ pc' = "returned"
    /\ UNCHANGED <<chain, args, rank, self, inference_context, tokens,
                   recv_buffer_seq_length, path, mb, recv_buffer, helper,
                   output_tensor, logits, entry, writes, calls,
                   sum_tokens_seq>>

\* recv_from_prev_pipeline_rank_ raises
RecvRaises == pc = "helper" /\ Receives(HelperBuffer) /\ Raise("recv")

\* the model raises
ForwardRaises == pc = "forward" /\ Raise("forward")

\* send_to_next_pipeline_rank raises
SendRaises == pc = "send" /\ Raise("send")

\* ------------------------------------------ _no_pipelining_forward_step
\* mutant: the output is returned on every stage
AnyStageLogits(output) == output

\* logits of _no_pipelining_forward_step: the output on the last stage only
LastStageLogits(output) == IF is_pipeline_last_stage THEN output ELSE NoTensor

NoPipeliningFinish ==
    /\ pc = "ret"
    /\ path = "single"
    /\ inference_context' =
           [inference_context EXCEPT !.sequence_len_offset = @ + SeqAdvance(tokens)]
    /\ logits' = LastStageLogits(output_tensor)
    /\ result' = [status |-> "completed", value |-> logits']
    /\ sum_tokens_seq' = sum_tokens_seq + Size1(tokens)
    /\ pc' = "returned"
    /\ UNCHANGED <<chain, args, rank, self, tokens, recv_buffer_seq_length, path, mb,
                   recv_buffer, helper, output_tensor, entry, trace, writes,
                   calls>>

\* ------------------------------------------------------------ the caller
\* the caller has the result (or the exception); the frames are gone
Return ==
    /\ pc = "returned"
    /\ pc' = "idle"
    /\ tokens' = [rows |-> <<>>, seq |-> 0]
    /\ recv_buffer_seq_length' = NoneLen
    /\ path' = "none"
    /\ mb' = NoFrame
    /\ recv_buffer' = NoBuffer
    /\ helper' = NoHelper
    /\ output_tensor' = NoTensor
    /\ logits' = NoTensor
    /\ result' = NoResult
    /\ entry' = inference_context
    /\ trace' = <<>>
    /\ writes' = <<>>
    /\ UNCHANGED <<chain, args, rank, self, inference_context, calls, sum_tokens_seq>>

Next ==
    \/ Construct
    \/ \E t \in Batches, rbsl \in RecvLengths : CallZeroDivision(t, rbsl)
    \/ \E t \in Batches, rbsl \in RecvLengths : CallPipelining(t, rbsl)
    \/ \E t \in Batches, rbsl \in RecvLengths : CallNoPipelining(t, rbsl)
    \/ LoopIter
    \/ HelperRecv
    \/ RecvRaises
    \/ HelperForward
    \/ ForwardRaises
    \/ HelperSend
    \/ SendRaises
    \/ AfterMicroBatch
    \/ PipeliningFinish
    \/ NoPipeliningFinish
    \/ Return

Spec == Init /\ [][Next]_vars

\* _with_pipelining_forward_step applied once to any batch and any
\* micro_batch_size >= 1, whatever __call__ would have decided
NextPlan ==
    \/ Construct
    \/ \E t \in PlanBatches, m \in 1..PlanMaxMicro : DirectPipelining(t, m)
    \/ LoopIter
    \/ HelperRecv
    \/ RecvRaises
    \/ HelperForward
    \/ ForwardRaises
    \/ HelperSend
    \/ SendRaises
    \/ AfterMicroBatch
    \/ PipeliningFinish
    \/ Return

SpecPlan == Init /\ [][NextPlan]_vars

\* ------------------------------------------------ _allocate_recv_buffer
\* one call of _allocate_recv_buffer(batch_size, sequence_length)
Allocate(batch_size, sequence_length) ==
    /\ pc \in {"new", "allocated"}
    /\ recv_buffer' = allocate_recv_buffer(batch_size, sequence_length)
    /\ trace' = <<Event("allocate", <<batch_size, sequence_length>>)>>
    /\ pc' = "allocated"
    /\ UNCHANGED <<chain, args, rank, self, inference_context, tokens,
                   recv_buffer_seq_length, path, mb, helper, output_tensor,
                   logits, result, entry, writes, calls, sum_tokens_seq>>

InitAlloc == InitWith(ArgsOfAllocations)

NextAlloc ==
    \E b \in 0..MaxBatch, sl \in 0..AllocMaxSeq : Allocate(b, sl)

\* _allocate_recv_buffer applied to any sizes under any dtype setting
SpecAlloc == InitAlloc /\ [][NextAlloc]_vars

\* ------------------------------------ invocations whose calls all return
\* every receive, model call and send returns: no call raises
NextReturns ==
    \/ Construct
    \/ \E t \in Batches, rbsl \in RecvLengths : CallZeroDivision(t, rbsl)
    \/ \E t \in Batches, rbsl \in RecvLengths : CallPipelining(t, rbsl)
    \/ \E t \in Batches, rbsl \in RecvLengths : CallNoPipelining(t, rbsl)
    \/ LoopIter
    \/ HelperRecv
    \/ HelperForward
    \/ HelperSend
    \/ AfterMicroBatch
    \/ PipeliningFinish
    \/ NoPipeliningFinish
    \/ Return

\* the statements of one invocation: the thread that entered __call__ keeps
\* executing them, so a statement that stays enabled is executed
InvocationStep ==
    \/ LoopIter
    \/ HelperRecv
    \/ HelperForward
    \/ HelperSend
    \/ AfterMicroBatch
    \/ PipeliningFinish
    \/ NoPipeliningFinish

SpecReturns == Init /\ [][NextReturns]_vars /\ WF_vars(InvocationStep)

\* ------------------------------------------- a chain of pipeline ranks
\* Every rank of the pipeline runs __call__ once on the same tokens, the same
\* recv_buffer_seq_length and the same arguments.  chain[r] is the frame of
\* rank r; args, self, tokens and recv_buffer_seq_length are what they share.
ChainRanks == 0..(args.pipeline_model_parallel_size - 1)

IdleRank == [pc |-> "idle", path |-> "none", micro_batch_size |-> 0,
             num_micro_batches |-> 0, micro_batch_index |-> 0,
             this_micro_batch_size |-> 0, recv_buffer |-> NoBuffer,
             buffer |-> NoBuffer, sends |-> 0, recvs |-> 0]

ChainFrame ==
    UNCHANGED <<args, rank, self, inference_context, pc, tokens,
                recv_buffer_seq_length, path, mb, recv_buffer, helper,
                output_tensor, logits, result, entry, writes, calls,
                sum_tokens_seq>>

\* __call__ on rank r: the chunk decision and the buffers of lines 75-77, 148
ChainCall(r) ==
    /\ r \in ChainRanks
    /\ chain[r].pc = "idle"
    /\ LET seq_len == SeqLen(tokens, recv_buffer_seq_length)
           micro == MicroBatchSize(self.pipelining_batch_x_seqlen, seq_len)
       IN  chain' = [chain EXCEPT ![r] =
               IF ShouldPipeline(tokens, recv_buffer_seq_length)
               THEN IF seq_len = 0
                    THEN [@ EXCEPT !.pc = "raised"]
                    ELSE [@ EXCEPT
                             !.pc = "loop", !.path = "chunked",
                             !.micro_batch_size = micro,
                             !.num_micro_batches =
                                 NumMicroBatches(Size0(tokens), micro),
                             !.recv_buffer = AllocateOn(r = 0, micro, seq_len)]
               ELSE [@ EXCEPT
                        !.pc = "helper", !.path = "single",
                        !.this_micro_batch_size = Size0(tokens),
                        !.recv_buffer =
                            IF recv_buffer_seq_length # NoneLen
                            THEN AllocateOn(r = 0, Size0(tokens),
                                            recv_buffer_seq_length)
                            ELSE NoBuffer]]
    /\ UNCHANGED trace
    /\ ChainFrame

\* the loop head on rank r: the slice and the buffer handed to the helper
ChainLoopIter(r) ==
    /\ r \in ChainRanks
    /\ chain[r].pc = "loop"
    /\ chain[r].micro_batch_index < chain[r].num_micro_batches
    /\ LET start == MicroStart(chain[r].micro_batch_index,
                               chain[r].micro_batch_size)
           end == MicroEnd(start, chain[r].micro_batch_size, Size0(tokens))
       IN  chain' = [chain EXCEPT ![r] = [@ EXCEPT
               !.pc = "helper",
               !.this_micro_batch_size = end - start,
               !.recv_buffer = BufferForSlice(end - start,
                                              chain[r].micro_batch_size,
                                              chain[r].recv_buffer)]]
    /\ UNCHANGED trace
    /\ ChainFrame

\* the loop exit on rank r: the invocation returns
ChainLoopExit(r) ==
    /\ r \in ChainRanks
    /\ chain[r].pc = "loop"
    /\ chain[r].micro_batch_index = chain[r].num_micro_batches
    /\ chain' = [chain EXCEPT ![r].pc = "done"]
    /\ UNCHANGED trace
    /\ ChainFrame

\* the helper on rank r up to the receive: it allocates a buffer if it got
\* none, then calls recv_from_prev_pipeline_rank_ or skips it
ChainHelperBuffer(r) ==
    /\ r \in ChainRanks
    /\ chain[r].pc = "helper"
    /\ LET buffer == IF chain[r].recv_buffer = NoBuffer
                     THEN AllocateOn(r = 0, chain[r].this_micro_batch_size,
                                     Size1(tokens))
                     ELSE chain[r].recv_buffer
       IN  chain' = [chain EXCEPT ![r] = [@ EXCEPT
               !.buffer = buffer,
               !.pc = IF Receives(buffer) THEN "recv" ELSE "forward"]]
    /\ UNCHANGED trace
    /\ ChainFrame

\* set_input_tensor and the model call on rank r, then the call of
\* send_to_next_pipeline_rank
ChainForward(r) ==
    /\ r \in ChainRanks
    /\ chain[r].pc = "forward"
    /\ chain' = [chain EXCEPT ![r].pc = "send"]
    /\ UNCHANGED trace
    /\ ChainFrame

\* send_to_next_pipeline_rank on the last stage returns at once
ChainSendLast(r) ==
    /\ r \in ChainRanks
    /\ r = args.pipeline_model_parallel_size - 1
    /\ chain[r].pc = "send"
    /\ chain' = [chain EXCEPT ![r] = [@ EXCEPT !.pc = "ret",
                                               !.sends = @ + 1]]
    /\ UNCHANGED trace
    /\ ChainFrame

\* the send of rank r meets the receive of rank r + 1: both calls return.
\* Recorded: which send met which receive, and the two slice sizes.
Rendezvous(r) ==
    /\ r \in ChainRanks
    /\ r + 1 \in ChainRanks
    /\ chain[r].pc = "send"
    /\ chain[r + 1].pc = "recv"
    /\ chain' = [chain EXCEPT
                    ![r] = [@ EXCEPT !.pc = "ret", !.sends = @ + 1],
                    ![r + 1] = [@ EXCEPT !.pc = "forward", !.recvs = @ + 1]]
    /\ trace' = Append(trace,
           [ev |-> "match", mb |-> chain[r].sends,
            info |-> <<r, chain[r + 1].recvs,
                       chain[r].this_micro_batch_size,
                       chain[r + 1].this_micro_batch_size,
                       chain[r + 1].buffer[2]>>])
    /\ ChainFrame

\* after the helper on rank r: the next micro-batch, or the return
ChainAfter(r) ==
    /\ r \in ChainRanks
    /\ chain[r].pc = "ret"
    /\ chain' = [chain EXCEPT ![r] =
           IF chain[r].path = "chunked"
           THEN [@ EXCEPT !.pc = "loop", !.micro_batch_index = @ + 1]
           ELSE [@ EXCEPT !.pc = "done"]]
    /\ UNCHANGED trace
    /\ ChainFrame

\* constructed schedulers on every rank of a pipeline of at least two ranks,
\* and the batch they are all called with
InitChain ==
    /\ args \in [pipeline_model_parallel_size : 2..ChainMaxRanks,
                 inference_batch_times_seqlen_threshold : Thresholds,
                 fp32_residual_connection : {FALSE},
                 params_dtype : {"float16"}]
    /\ self = [pipeline_size_larger_than_one |->
                   args.pipeline_model_parallel_size > 1,
               pipelining_batch_x_seqlen |->
                   args.inference_batch_times_seqlen_threshold]
    /\ tokens \in Batches
    /\ recv_buffer_seq_length \in RecvLengths
    /\ chain = [r \in ChainRanks |-> IdleRank]
    /\ rank = 0
    /\ inference_context = [sequence_len_offset |-> 0, batch_size_offset |-> 0]
    /\ pc = "idle"
    /\ path = "none"
    /\ mb = NoFrame
    /\ recv_buffer = NoBuffer
    /\ helper = NoHelper
    /\ output_tensor = NoTensor
    /\ logits = NoTensor
    /\ result = NoResult
    /\ entry = inference_context
    /\ trace = <<>>
    /\ writes = <<>>
    /\ calls = 0
    /\ sum_tokens_seq = 0

AllRanks == 0..(ChainMaxRanks - 1)

\* one statement of rank r that needs no other rank
RankStep(r) ==
    \/ ChainCall(r)
    \/ ChainLoopIter(r)
    \/ ChainLoopExit(r)
    \/ ChainHelperBuffer(r)
    \/ ChainForward(r)
    \/ ChainSendLast(r)
    \/ ChainAfter(r)

NextChain ==
    \/ \E r \in AllRanks : ChainCall(r)
    \/ \E r \in AllRanks : ChainLoopIter(r)
    \/ \E r \in AllRanks : ChainLoopExit(r)
    \/ \E r \in AllRanks : ChainHelperBuffer(r)
    \/ \E r \in AllRanks : ChainForward(r)
    \/ \E r \in AllRanks : ChainSendLast(r)
    \/ \E r \in AllRanks : Rendezvous(r)
    \/ \E r \in AllRanks : ChainAfter(r)

\* every rank is a process of its own that keeps running, and a send and a
\* receive that wait for each other do meet
SpecChain ==
    /\ InitChain
    /\ [][NextChain]_vars
    /\ \A r \in AllRanks : WF_vars(RankStep(r)) /\ WF_vars(Rendezvous(r))


\* ------------------------------------------------- reading the state
InInvocation == pc \in {"loop", "helper", "forward", "send", "ret", "returned"}
InHelper == pc \in {"helper", "forward", "send", "ret"}
Completed == pc = "returned" /\ result.status = "completed"
HasAborted == pc = "returned" /\ result.status = "aborted"

IsSlice(e) == e.ev = "slice"
IsForward(e) == e.ev = "forward"
IsSend(e) == e.ev = "send"

\* the ranges <<start, end>> the loop has visited, in visiting order
Plan == SelectSeq(trace, IsSlice)
RangeStart(e) == e.info[1]
RangeEnd(e) == e.info[2]

\* the sum of the sizes of the visited ranges of micro-batches before k
RECURSIVE SizesBefore(_, _)
SizesBefore(p, k) ==
    IF p = <<>> THEN 0
    ELSE (IF Head(p).mb < k THEN RangeEnd(Head(p)) - RangeStart(Head(p)) ELSE 0)
             + SizesBefore(Tail(p), k)

\* the order of the calls within one micro-batch
Phase(e) ==
    CASE e.ev = "slice" -> 0
      [] e.ev = "recv" -> 1
      [] e.ev = "forward" -> 2
      [] e.ev = "send" -> 3
      [] e.ev = "offset" -> 4
      [] e.ev = "copy" -> 5
      [] e.ev = "raise" -> 6

\* seq_len as the specification defines it for an invocation
ClaimedSeqLen ==
    IF recv_buffer_seq_length # NoneLen THEN recv_buffer_seq_length
    ELSE Size1(tokens)

BadThreshold(th) == th <= 0 /\ th # -1

\* ---------------------------------------------------------------- C1
\* C1: in every invocation the chunked path is taken if and only if the
\* pipeline degree is above 1, the threshold is not the sentinel and
\* B * seq_len >= threshold; it is entered with micro_batch_size =
\* max(1, threshold // seq_len) >= 1; in every other case exactly one
\* non-chunked step is run.
C1_ChunkDecision ==
    InInvocation =>
        LET th == args.inference_batch_times_seqlen_threshold
            chunk == /\ args.pipeline_model_parallel_size > 1
                     /\ th # -1
                     /\ Size0(tokens) * ClaimedSeqLen >= th
        IN  /\ (path = "chunked") <=> chunk
            /\ path = "chunked" =>
                   /\ mb.micro_batch_size = Max(1, th \div ClaimedSeqLen)
                   /\ mb.micro_batch_size >= 1
            /\ ~chunk => path = "single"
            /\ (~chunk /\ Completed) =>
                   /\ Len(SelectSeq(trace, IsForward)) = 1
                   /\ Len(SelectSeq(trace, IsSend)) = 1

\* the decision of C1 where the floor division is defined: seq_len >= 1
ChunkDecisionPositiveSeqLen == ClaimedSeqLen >= 1 => C1_ChunkDecision

\* the state that refutes C1: the decision raised, no path was entered
ZeroDivisionReached == HasAborted /\ path = "none"

\* ---------------------------------------------------------------- C2
\* C2: the index ranges the chunked loop visits are, in visiting order,
\* increasing, contiguous from 0, non-overlapping, non-empty and of size at
\* most M; only the last may be smaller than M; after the loop their union
\* is [0, B); a B divisible by M has no short range; B=10, M=4 gives
\* [0,4), [4,8), [8,10).
C2_PlanRanges ==
    path = "chunked" =>
        LET B == Size0(tokens)
            M == mb.micro_batch_size
            P == Plan
            n == Len(Plan)
        IN  /\ \A i \in 1..n :
                   /\ RangeStart(P[i]) < RangeEnd(P[i])
                   /\ RangeEnd(P[i]) - RangeStart(P[i]) <= M
                   /\ RangeEnd(P[i]) <= B
                   /\ i = 1 => RangeStart(P[i]) = 0
                   /\ i > 1 => RangeStart(P[i]) = RangeEnd(P[i - 1])
                   /\ i < n => RangeEnd(P[i]) - RangeStart(P[i]) = M
            /\ Completed =>
                   /\ UNION {(RangeStart(P[i]) + 1)..RangeEnd(P[i]) : i \in 1..n}
                          = 1..B
                   /\ B % M = 0 =>
                          \A i \in 1..n : RangeEnd(P[i]) - RangeStart(P[i]) = M
                   /\ (B = 10 /\ M = 4) =>
                          [i \in 1..n |-> P[i].info]
                              = <<<<0, 4>>, <<4, 8>>, <<8, 10>>>>

C2_Witness ==
    /\ Completed
    /\ path = "chunked"
    /\ Size0(tokens) = 10
    /\ mb.micro_batch_size = 4
    /\ Len(Plan) = 3

\* ---------------------------------------------------------------- C3
\* C3 as stated: a completed invocation has advanced sequence_len_offset by
\* seq_len, the explicit recv_buffer_seq_length if one was given and
\* tokens.size(1) otherwise.
C3_AdvancesBySeqLen ==
    Completed =>
        inference_context.sequence_len_offset
            = entry.sequence_len_offset + ClaimedSeqLen

\* C3 amended: a completed invocation has advanced sequence_len_offset by
\* tokens.size(1), whether or not recv_buffer_seq_length was given, once and
\* only at its completion, on both paths; so the offset is the sum of
\* tokens.size(1) over the completed invocations.
C3_AdvancesByTokensSize ==
    /\ inference_context.sequence_len_offset = sum_tokens_seq
    /\ Completed =>
           inference_context.sequence_len_offset
               = entry.sequence_len_offset + Size1(tokens)
    /\ (InInvocation /\ ~Completed) =>
           inference_context.sequence_len_offset = entry.sequence_len_offset

C3_Witness ==
    /\ Completed
    /\ path = "chunked"
    /\ mb.num_micro_batches >= 2
    /\ recv_buffer_seq_length # NoneLen
    /\ recv_buffer_seq_length # Size1(tokens)
    /\ Size1(tokens) > 0
    /\ entry.sequence_len_offset > 0

\* ---------------------------------------------------------------- C4
\* C4 as stated: batch_size_offset is 0 right after every invocation that
\* completes, also when earlier invocations were aborted.
C4_ZeroAfterEveryCompleted ==
    Completed => inference_context.batch_size_offset = 0

\* C4 amended: batch_size_offset is 0 right after every chunked invocation
\* that completes, whatever it was at entry; a completed non-chunked
\* invocation leaves it at its entry value.
C4_ZeroAfterChunkedKeptBySingle ==
    Completed =>
        /\ path = "chunked" => inference_context.batch_size_offset = 0
        /\ path = "single" =>
               inference_context.batch_size_offset = entry.batch_size_offset

C4_Witness ==
    /\ Completed
    /\ path = "chunked"
    /\ mb.num_micro_batches >= 2
    /\ entry.batch_size_offset > 0

\* ---------------------------------------------------------------- C5
\* C5: in a chunked invocation entered with batch_size_offset = 0, once the
\* micro-batch covering [start, end) has run and its offset update is done,
\* and before the next receive, batch_size_offset = end; while that
\* micro-batch runs the offset is still start: one advance by the slice's
\* size per micro-batch.
C5_OffsetReachesEnd ==
    (path = "chunked" /\ entry.batch_size_offset = 0) =>
        /\ (pc = "loop" /\ mb.micro_batch_index >= 1) =>
               inference_context.batch_size_offset = mb.end
        /\ InHelper => inference_context.batch_size_offset = mb.start

C5_Witness ==
    /\ path = "chunked"
    /\ entry.batch_size_offset = 0
    /\ pc = "loop"
    /\ mb.micro_batch_index = 2
    /\ mb.this_micro_batch_size < mb.micro_batch_size
    /\ inference_context.batch_size_offset = mb.end

\* ---------------------------------------------------------------- C6
\* C6: for every micro-batch, and for the single step, the calls happen in
\* the order receive, forward, send; no call of micro-batch k+1 happens
\* before the send of micro-batch k and the offset update after it.
C6_StepOrder ==
    /\ \A i, j \in 1..Len(trace) :
           i < j =>
               \/ trace[i].mb < trace[j].mb
               \/ /\ trace[i].mb = trace[j].mb
                  /\ Phase(trace[i]) < Phase(trace[j])
    /\ \A j \in 1..Len(trace) :
           trace[j].ev = "send" =>
               \E i \in 1..(j - 1) :
                   trace[i].ev = "forward" /\ trace[i].mb = trace[j].mb
    /\ \A j \in 1..Len(trace) :
           trace[j].mb >= 1 =>
               /\ \E i \in 1..(j - 1) :
                      trace[i].ev = "send" /\ trace[i].mb = trace[j].mb - 1
               /\ \E i \in 1..(j - 1) :
                      trace[i].ev = "offset" /\ trace[i].mb = trace[j].mb - 1

C6_Witness ==
    /\ Completed
    /\ path = "chunked"
    /\ \E j \in 1..Len(trace) : trace[j].ev = "recv" /\ trace[j].mb = 1
    /\ \E j \in 1..Len(trace) : trace[j].ev = "recv" /\ trace[j].mb = 0

\* ---------------------------------------------------------------- C7
\* C7: when a receive, the model or a send of micro-batch k raises, the
\* invocation returns no logits, nothing follows the raising call,
\* sequence_len_offset has its entry value and batch_size_offset is its
\* entry value plus the sizes of micro-batches 0..k-1; on the non-chunked
\* path both offsets have their entry values.
C7_AbortLeavesOffsets ==
    /\ \A i \in 1..Len(trace) : trace[i].ev = "raise" => i = Len(trace)
    /\ result.status = "aborted" => pc = "returned"
    /\ (HasAborted /\ path # "none") =>
           LET k == trace[Len(trace)].mb
           IN  /\ trace[Len(trace)].ev = "raise"
               /\ result.value = NoTensor
               /\ \A i \in 1..Len(trace) : trace[i].mb <= k
               /\ inference_context.sequence_len_offset
                      = entry.sequence_len_offset
               /\ path = "chunked" =>
                      inference_context.batch_size_offset
                          = entry.batch_size_offset + SizesBefore(Plan, k)
               /\ path = "single" =>
                      inference_context.batch_size_offset
                          = entry.batch_size_offset

C7_Witness ==
    /\ HasAborted
    /\ path = "chunked"
    /\ trace[Len(trace)].mb >= 1
    /\ entry.batch_size_offset > 0
    /\ inference_context.batch_size_offset > entry.batch_size_offset

\* ---------------------------------------------------------------- C8
\* C8: a completed invocation on a rank that is not the last stage returns
\* None on both paths; on the last stage the non-chunked path returns the
\* output of the step and the chunked path the pre-allocated logits buffer.
C8_LogitsOnLastStageOnly ==
    Completed =>
        /\ ~is_pipeline_last_stage => result.value = NoTensor
        /\ (is_pipeline_last_stage /\ path = "single") =>
               /\ result.value = output_tensor
               /\ result.value.kind = "tensor"
        /\ (is_pipeline_last_stage /\ path = "chunked") =>
               /\ result.value.kind = "tensor"
               /\ result.value.dtype = "float32"
               /\ Len(result.value.rows) = Size0(tokens)

C8_Witness ==
    /\ Completed
    /\ ~is_pipeline_last_stage
    /\ path = "chunked"
    /\ mb.num_micro_batches >= 2

\* ---------------------------------------------------------------- C9
\* C9: on the last stage the rows of the logits the chunked path returns
\* are the rows one step over the whole batch would return; after each
\* micro-batch rows [start, end) hold that micro-batch's output; every row
\* of [0, B) is written exactly once and none twice.
C9_ChunkedEqualsWhole ==
    (path = "chunked" /\ is_pipeline_last_stage) =>
        /\ \A i \in 1..Len(writes) : writes[i] <= 1
        /\ (pc = "loop" /\ mb.micro_batch_index >= 1) =>
               \A j \in 1..(mb.end - mb.start) :
                   logits.rows[mb.start + j] = output_tensor.rows[j]
        /\ Completed =>
               /\ result.value.rows = Forward(tokens).rows
               /\ \A i \in 1..Size0(tokens) : writes[i] = 1

C9_Witness ==
    /\ Completed
    /\ path = "chunked"
    /\ is_pipeline_last_stage
    /\ mb.num_micro_batches >= 2
    /\ mb.this_micro_batch_size < mb.micro_batch_size

\* --------------------------------------------------------------- C10
\* C10: a threshold that is non-positive and not the sentinel -1 is
\* rejected at construction, so the scheduler is never constructed with it
\* and no invocation runs the chunk decision with it.
C10_BadThresholdRejected ==
    BadThreshold(args.inference_batch_times_seqlen_threshold) =>
        /\ pc = "new"
        /\ calls = 0


\* --------------------------------------------------------------- C11
\* C11: _allocate_recv_buffer(batch_size, sequence_length) returns None on
\* every call on the first stage; on any other stage a buffer of shape
\* (sequence_length, batch_size, hidden_size), so (5, 2, 8) for B=2, S=5,
\* hidden=8, of dtype fp32 under fp32_residual_connection and params_dtype
\* otherwise.
C11_RecvBufferShape ==
    pc = "allocated" =>
        LET b == trace[1].info[1]
            sl == trace[1].info[2]
        IN  /\ rank = 0 => recv_buffer = NoBuffer
            /\ rank # 0 =>
                   /\ Len(recv_buffer) = 4
                   /\ recv_buffer[1] = sl
                   /\ recv_buffer[2] = b
                   /\ recv_buffer[3] = hidden_size
                   /\ args.fp32_residual_connection =>
                          recv_buffer[4] = "float32"
                   /\ ~args.fp32_residual_connection =>
                          recv_buffer[4] = args.params_dtype
                   /\ (b = 2 /\ sl = 5) =>
                          SubSeq(recv_buffer, 1, 3) = <<5, 2, 8>>

C11_Witness ==
    /\ pc = "allocated"
    /\ rank # 0
    /\ trace[1].info = <<2, 5>>
    /\ args.fp32_residual_connection
    /\ args.params_dtype = "bfloat16"
    /\ recv_buffer = <<5, 2, 8, "float32">>

\* --------------------------------------------------------------- C12
\* ceil(B / micro_batch_size), computed without the code's divmod
CeilDiv(a, b) == (a + b - 1) \div b

IsStepCall(e) == e.ev \in {"slice", "forward", "send"}
StepCalls == SelectSeq(trace, IsStepCall)
Running == pc \in {"loop", "helper", "forward", "send", "ret"}

\* the helper ran once per micro-batch, in increasing range order, with one
\* send per run: slice 0, forward 0, send 0, slice 1, forward 1, send 1, ...
RunsPerMicroBatch ==
    /\ Len(StepCalls) = 3 * CeilDiv(Size0(tokens), mb.micro_batch_size)
    /\ \A k \in 0..(CeilDiv(Size0(tokens), mb.micro_batch_size) - 1) :
           /\ StepCalls[3 * k + 1].ev = "slice"
           /\ StepCalls[3 * k + 2].ev = "forward"
           /\ StepCalls[3 * k + 3].ev = "send"
           /\ \A j \in 1..3 : StepCalls[3 * k + j].mb = k
           /\ k > 0 => RangeStart(StepCalls[3 * k + 1])
                           > RangeStart(StepCalls[3 * k - 2])

RunsOnce ==
    /\ Len(StepCalls) = 2
    /\ StepCalls[1].ev = "forward"
    /\ StepCalls[2].ev = "send"

\* C12: every top-level invocation in which each receive, model call and send
\* returns terminates, having run _forward_step_helper exactly once on the
\* non-chunked path or exactly ceil(B / micro_batch_size) times on the chunked
\* path, once per micro-batch in increasing range order, with one send per run.
C12_TerminatesAfterAllRuns ==
    /\ [](Completed /\ path = "single" => RunsOnce)
    /\ [](Completed /\ path = "chunked" => RunsPerMicroBatch)
    /\ [](pc = "returned" => result.status # "none")
    /\ (Running ~> pc = "returned")

C12_Witness ==
    /\ Completed
    /\ path = "chunked"
    /\ Size0(tokens) = 3
    /\ mb.micro_batch_size = 2
    /\ Len(SelectSeq(trace, IsSend)) = 2
    /\ Len(SelectSeq(trace, IsForward)) = 2

\* --------------------------------------------------------------- C13
IsRecv(e) == e.ev = "recv"

\* the receives of the helper run of micro-batch k (k = 0 when not chunked)
RecvsOfRun(k) == {i \in DOMAIN trace : IsRecv(trace[i]) /\ trace[i].mb = k}

\* C13: through __call__, a first-stage rank performs no receive in any run
\* of _forward_step_helper on either path; a rank that is not the first stage
\* performs exactly one receive, before the model call, in every run whose
\* buffer is non-empty.
C13_ReceivesPerRun ==
    /\ is_pipeline_first_stage => SelectSeq(trace, IsRecv) = <<>>
    /\ \A j \in DOMAIN trace :
           (/\ IsForward(trace[j])
            /\ ~is_pipeline_first_stage
            /\ trace[j].info[3] # NoBuffer
            /\ numel(trace[j].info[3]) > 0)
           => /\ Cardinality(RecvsOfRun(trace[j].mb)) = 1
              /\ \A i \in RecvsOfRun(trace[j].mb) : i < j

C13_Witness ==
    /\ Completed
    /\ path = "chunked"
    /\ ~is_pipeline_first_stage
    /\ recv_buffer_seq_length = NoneLen
    /\ Len(SelectSeq(trace, IsRecv)) = 2
    /\ Len(SelectSeq(trace, IsForward)) = 2
    /\ \A j \in DOMAIN trace :
           IsForward(trace[j]) => numel(trace[j].info[3]) > 0

\* --------------------------------------------------------------- C14
\* the size of the slice of micro-batch k of the running chunked invocation
SliceSize(k) == RangeEnd(Plan[k + 1]) - RangeStart(Plan[k + 1])

\* C14: in the chunked path the pre-allocated buffer is handed to
\* _forward_step_helper only for slices whose size equals micro_batch_size; a
\* slice of another size (the short final one) is run with a freshly allocated
\* buffer, so on a non-first stage the batch dimension of the buffer used for
\* every receive equals the size of the slice being executed.
C14_BufferMatchesSlice ==
    path = "chunked" =>
        /\ (InHelper /\ recv_buffer # NoBuffer) =>
               mb.this_micro_batch_size = mb.micro_batch_size
        /\ (InHelper /\ mb.this_micro_batch_size # mb.micro_batch_size) =>
               /\ recv_buffer = NoBuffer
               /\ pc # "helper" =>
                      helper.recv_buffer =
                          allocate_recv_buffer(mb.this_micro_batch_size,
                                               Size1(tokens))
        /\ \A i \in DOMAIN trace :
               (IsRecv(trace[i]) /\ ~is_pipeline_first_stage) =>
                   trace[i].info[2] = SliceSize(trace[i].mb)

C14_Witness ==
    /\ Completed
    /\ path = "chunked"
    /\ ~is_pipeline_first_stage
    /\ Size0(tokens) = 3
    /\ mb.micro_batch_size = 2
    /\ \E i, j \in DOMAIN trace :
           /\ i < j
           /\ IsRecv(trace[i]) /\ trace[i].info[2] = 2
           /\ IsRecv(trace[j]) /\ trace[j].info[2] = 1

\* --------------------------------------------------------------- C15
\* a step taken inside _forward_step_helper leaves both offsets alone
HelperKeepsOffsets ==
    (pc \in {"helper", "forward", "send"})
        => (inference_context' = inference_context)

\* a step of a chunked invocation that writes sequence_len_offset is taken
\* at the loop exit, after the last micro-batch
SeqOffsetWrittenAfterLast ==
    (/\ path = "chunked"
     /\ inference_context'.sequence_len_offset
            # inference_context.sequence_len_offset)
        => (pc = "loop" /\ mb.micro_batch_index = mb.num_micro_batches)

\* C15: the scheduler writes the two offsets only at micro-batch boundaries:
\* a run of _forward_step_helper writes neither offset, the non-chunked path
\* leaves batch_size_offset unchanged, and in the chunked path
\* sequence_len_offset keeps its entry value until the last micro-batch has
\* completed.
C15_OffsetsWrittenAtBoundaries ==
    /\ [][HelperKeepsOffsets]_vars
    /\ [][SeqOffsetWrittenAfterLast]_vars
    /\ []((path = "single" /\ InInvocation) =>
              inference_context.batch_size_offset = entry.batch_size_offset)
    /\ []((path = "chunked" /\ Running) =>
              inference_context.sequence_len_offset
                  = entry.sequence_len_offset)

C15_Witness ==
    /\ path = "chunked"
    /\ pc = "loop"
    /\ mb.num_micro_batches = 2
    /\ mb.micro_batch_index = mb.num_micro_batches
    /\ Size1(tokens) > 0
    /\ entry.sequence_len_offset > 0
    /\ inference_context.sequence_len_offset = entry.sequence_len_offset
    /\ inference_context.batch_size_offset = Size0(tokens)

\* --------------------------------------------------------------- C16
\* C16: the pipelined path runs only if batch_size * seq_len is strictly
\* greater than the threshold (and pipeline_model_parallel_size > 1); a batch
\* whose batch_size * seq_len equals the threshold is not split.  Stated for
\* the thresholds >= 1, the ones that are no sentinel and no error.
C16_SplitOnlyAboveThreshold ==
    (/\ InInvocation
     /\ path # "none"
     /\ args.inference_batch_times_seqlen_threshold >= 1) =>
        /\ path = "chunked" =>
               /\ args.pipeline_model_parallel_size > 1
               /\ Size0(tokens) * ClaimedSeqLen
                      > args.inference_batch_times_seqlen_threshold
        /\ Size0(tokens) * ClaimedSeqLen
               = args.inference_batch_times_seqlen_threshold
           => path = "single"

\* the code's comparison: a batch at the threshold is split
SplitAtThreshold ==
    /\ path = "chunked"
    /\ pc = "returned"
    /\ result.status = "completed"
    /\ args.inference_batch_times_seqlen_threshold = 2
    /\ Size0(tokens) = 2
    /\ ClaimedSeqLen = 1
    /\ mb.num_micro_batches = 1

\* --------------------------------------------------------------- C17
\* C17: whenever the model forward callable is invoked for micro-batch
\* [start, end) in a chunked invocation entered with batch_size_offset == 0,
\* the offset it reads is batch_size_offset == start and sequence_len_offset
\* is the invocation's entry value; throughout the invocation
\* 0 <= batch_size_offset <= batch_size.
C17_ForwardReadsStart ==
    (path = "chunked" /\ InInvocation /\ entry.batch_size_offset = 0) =>
        /\ \A j \in DOMAIN trace :
               IsForward(trace[j]) =>
                   /\ trace[j].info[1] = RangeStart(Plan[trace[j].mb + 1])
                   /\ trace[j].info[2] = entry.sequence_len_offset
        /\ inference_context.batch_size_offset >= 0
        /\ inference_context.batch_size_offset <= Size0(tokens)

C17_Witness ==
    /\ path = "chunked"
    /\ pc = "send"
    /\ entry.batch_size_offset = 0
    /\ entry.sequence_len_offset = 2
    /\ mb.micro_batch_index = 2
    /\ mb.start = 2
    /\ trace[Len(trace)].ev = "forward"
    /\ trace[Len(trace)].info[1] = 2
    /\ trace[Len(trace)].info[2] = 2

\* --------------------------------------------------------------- C18
\* C18: on a non-first stage every hand-off buffer used for a receive within
\* one top-level invocation has sequence dimension equal to that invocation's
\* seq_len (recv_buffer_seq_length if given, else tokens.size(1)), for every
\* micro-batch including a short final one.
C18_RecvSeqDimIsSeqLen ==
    (InInvocation /\ ~is_pipeline_first_stage) =>
        \A i \in DOMAIN trace :
            IsRecv(trace[i]) => trace[i].info[1] = ClaimedSeqLen

\* the buffers the pre-allocation and the non-chunked path size are right
RecvSeqDimOfPassedBuffers ==
    (InInvocation /\ ~is_pipeline_first_stage) =>
        \A i \in DOMAIN trace :
            (/\ IsRecv(trace[i])
             /\ \/ path = "single"
                \/ SliceSize(trace[i].mb) = mb.micro_batch_size)
            => trace[i].info[1] = ClaimedSeqLen

\* the short final micro-batch receives into a buffer of tokens.size(1) rows
ShortSliceBufferOfTokensSize ==
    /\ path = "chunked"
    /\ ~is_pipeline_first_stage
    /\ pc = "forward"
    /\ recv_buffer_seq_length = 1
    /\ Size1(tokens) = 2
    /\ Size0(tokens) = 3
    /\ mb.micro_batch_size = 2
    /\ mb.this_micro_batch_size = 1
    /\ trace[Len(trace)].ev = "recv"
    /\ trace[Len(trace)].info[1] = 2

\* --------------------------------------------------------------- C19
\* C19: whenever __call__ takes the chunked path with batch_size >= 1,
\* seq_len >= 1 and threshold >= 1, 1 <= micro_batch_size <= batch_size, so
\* the first micro-batch is full-size, at most the last one is short, and the
\* pre-allocated receive buffer is never dropped before a later full-size
\* micro-batch needs it.
C19_MicroBatchSizeWithinBatch ==
    (/\ path = "chunked"
     /\ InInvocation
     /\ Size0(tokens) >= 1
     /\ ClaimedSeqLen >= 1
     /\ args.inference_batch_times_seqlen_threshold >= 1) =>
        /\ mb.micro_batch_size >= 1
        /\ mb.micro_batch_size <= Size0(tokens)
        /\ mb.num_micro_batches >= 1
        /\ \A k \in 0..(Len(Plan) - 1) :
               /\ k = 0 => SliceSize(k) = mb.micro_batch_size
               /\ k < mb.num_micro_batches - 1 =>
                      SliceSize(k) = mb.micro_batch_size
               /\ SliceSize(k) >= 1
               /\ SliceSize(k) <= mb.micro_batch_size
        /\ (/\ InHelper
            /\ ~is_pipeline_first_stage
            /\ mb.this_micro_batch_size = mb.micro_batch_size) =>
               recv_buffer = allocate_recv_buffer(mb.micro_batch_size,
                                                  ClaimedSeqLen)

C19_Witness ==
    /\ path = "chunked"
    /\ pc = "forward"
    /\ ~is_pipeline_first_stage
    /\ args.inference_batch_times_seqlen_threshold = 3
    /\ recv_buffer_seq_length = NoneLen
    /\ Size1(tokens) = 2
    /\ Size0(tokens) = 3
    /\ mb.micro_batch_size = 1
    /\ mb.micro_batch_index = 2
    /\ recv_buffer = <<2, 1, hidden_size, "float16">>

\* --------------------------------------------------------------- C20
IsMatch(e) == e.ev = "match"
AllDone == \A r \in ChainRanks : chain[r].pc = "done"
Blocked(r) == chain[r].pc \in {"send", "recv"}

\* the k-th send of rank i meets the k-th receive of rank i + 1, and the two
\* ranks are then at slices of one size, which is the buffer's batch dimension
MatchedInOrder ==
    \A i \in DOMAIN trace :
        IsMatch(trace[i]) =>
            /\ trace[i].mb = trace[i].info[2]
            /\ trace[i].info[3] = trace[i].info[4]
            /\ trace[i].info[3] = trace[i].info[5]

\* C20: in a chain of N >= 2 pipeline ranks that each run this scheduler on
\* the same batch shape, recv_buffer_seq_length and threshold, with send and
\* receive as blocking rendezvous and fair scheduling, the k-th send of rank i
\* is matched by the k-th receive of rank i + 1 with an equal slice size and no
\* reachable state is a deadlock: no rank is blocked in a send or a receive
\* in a state that no rank can leave.  Stated for the batches that are not
\* empty (batch_size >= 1, seq_len >= 1) and the thresholds that are the
\* sentinel or >= 1; that every rank then completes is ChainCompletes below.
C20_ChainMatchesAndNeverDeadlocks ==
    (/\ Size0(tokens) >= 1
     /\ ClaimedSeqLen >= 1
     /\ ~BadThreshold(args.inference_batch_times_seqlen_threshold)) =>
        /\ MatchedInOrder
        /\ (\E r \in ChainRanks : Blocked(r)) => ENABLED NextChain

\* no buffer of the invocation is empty: tokens.size(1) >= 1 as well, which
\* is the length the helper allocates with
NonEmptyBuffers ==
    /\ Size0(tokens) >= 1
    /\ Size1(tokens) >= 1
    /\ recv_buffer_seq_length # 0

\* with no empty buffer the sends and receives match in order and no rank is
\* left blocked, whatever the threshold
ChainNeverDeadlocksNonEmpty ==
    NonEmptyBuffers =>
        /\ MatchedInOrder
        /\ (\E r \in ChainRanks : Blocked(r)) => ENABLED NextChain
        /\ \A r \in ChainRanks : chain[r].pc # "raised"

\* and under fair scheduling every rank's invocation completes
ChainCompletes == NonEmptyBuffers ~> AllDone

\* a rank that skipped the receive of an empty buffer has returned while its
\* predecessor waits in the matching send
SenderLeftBlocked ==
    /\ Size0(tokens) >= 1
    /\ ClaimedSeqLen >= 1
    /\ chain[0].pc = "send"
    /\ chain[1].pc = "done"
    /\ chain[1].recvs < chain[1].sends

====
